---- MODULE Spec2Model ----
(***************************************************************************)
(* Model of scripts/prompt-builder.py: the change-aware indexing pipeline  *)
(* (index_codebase) and the retrieval entry point                          *)
(* (query_and_get_context_files) working on one store location: a vector   *)
(* collection plus the sidecar file last_index_meta.json.                  *)
(*                                                                         *)
(* The file tree, the wall clock, the embedding backend and the vector     *)
(* store are the environment.  Files are edited and removed between the    *)
(* steps of a run, the clock advances, and store / embedding calls fail    *)
(* where the code has a call that can raise.                               *)
(***************************************************************************)
EXTENDS Integers, Sequences, FiniteSets, TLC

\* ------------------------------------------------------------------ bounds
MaxTime   == 3      \* the wall clock runs over 1..MaxTime
MaxRuns   == 3      \* index runs started in one behaviour
MaxEvents == 2      \* file edits, removals and failing calls in one behaviour
EpochBase == 100    \* int(time.time()) is EpochBase + now: far above any count
MaxCandidates == 51 \* candidate files of a run of SpecProgress
MaxBatches == 2     \* full batches of a run of SpecProgress
MaxTexts == 4       \* chunks of the file of SpecEmbed
MaxLines == 58      \* lines of a file of SpecChunk, parameters of the call site
MaxSmallLines == 5  \* lines of a file of SpecChunk, small parameters
MaxParam == 3       \* largest max_lines of SpecChunkAny
MaxNodes == 4       \* nodes of the syntax tree of SpecExtract
MaxMinLines == 3    \* largest min_node_lines of SpecExtract
MaxChunks == 4      \* chunks the store returns in SpecScore
FloatBits == 4      \* significant bits of a floating-point number in SpecScore
EpsUnits == 16      \* distance units per epsilon in SpecScore
ScoreUnits == 100   \* score units per 1.0 in SpecScore
MaxFiles == 12      \* files among the store's results in SpecRank
MaxPerFile == 2     \* items per file among the store's results in SpecRank

\* ------------------------------------------------------- program constants
batch_size == 500
TOP_K_FILES_TO_RETRIEVE == 10
MIN_CHUNK_SIZE_LINES_FALLBACK == 5
MAX_CHUNK_SIZE_LINES_FALLBACK == 30
OVERLAP_LINES_FALLBACK == 3
InvEpsilon == 1000000   \* 1 / 1e-6, the epsilon of the distance score

\* ------------------------------------------------------------- environment
\* Project path strings a caller may pass; "/a/" names the project "/a"
\* with a trailing separator.
PathStrs == {"/a", "/a/", "/b"}

\* Candidate-eligible files (recognised extension, not ignored), by absolute
\* path below the resolved project root.
Files == {"/a/x", "/a/y", "/b/z"}

VARIABLES
    now,                \* wall clock, time.time()
    fs,                 \* file tree: fs[f] = [exists, mtime, ver]
    edits,              \* edits and removals so far
    faults,             \* calls that raised so far
    collection,         \* the vector store: set of [id, embedding, metadata]
    meta_file,          \* last_index_meta.json
    runs,               \* index runs started so far
    pc,                 \* position of the index run in progress
    project_dir_str,    \* index_codebase argument
    mode,               \* index_codebase argument
    last_index_timestamp,
    candidate_files,
    files_to_process_map,
    modified_files_for_deletion_check,
    doc_id_offset,
    pending,            \* submitted futures not yet yielded by as_completed
    all_embeddings,
    all_metadatas,
    all_ids,
    batch_i,            \* loop variable i of the batch loop
    lost,               \* files with an entry in a batch whose upsert raised
    store0,             \* the store as the run found it (after the clearing)
    ev0,                \* edits + faults when the run started
    prev,               \* what the last finished index run did
    query,              \* what the last query did
    prog,               \* the progress events of one run, by counts (SpecProgress)
    call                \* one call of a helper function, step by step (SpecChunk, ...)

run_vars == <<project_dir_str, mode, last_index_timestamp, candidate_files,
              files_to_process_map, modified_files_for_deletion_check,
              doc_id_offset, pending, all_embeddings, all_metadatas, all_ids,
              batch_i, lost, store0, ev0>>
env_vars == <<now, fs, edits>>
vars == <<now, fs, edits, faults, collection, meta_file, runs, pc,
          project_dir_str, mode, last_index_timestamp, candidate_files,
          files_to_process_map, modified_files_for_deletion_check,
          doc_id_offset, pending, all_embeddings, all_metadatas, all_ids,
          batch_i, lost, store0, ev0, prev, query, prog, call>>

\* ----------------------------------------------------------------- helpers
Min(a, b) == IF a < b THEN a ELSE b

\* Path(s).resolve() followed by str(): drops the trailing separator.
Resolve(s) == IF s = "/a/" THEN "/a" ELSE s

\* The project root a file lies under.
RootOf(f) == IF f = "/b/z" THEN "/b" ELSE "/a"

\* Number of chunks the chunker yields for content version v of file f: one
\* chunk, except that "/a/x" grows to two chunks once edited.
NumChunks(f, v) == IF f = "/a/x" /\ v > 1 THEN 2 ELSE 1

\* The elements of a sequence.
Range(s) == {s[k] : k \in 1..Len(s)}

\* The ids held by the store.
StoreIds == {e.id : e \in collection}

\* collection.count()
Count == Cardinality(collection)

\* load_last_index_meta: the default record when the file is absent or
\* not valid JSON, else the decoded record.
load_last_index_meta ==
    IF meta_file.state = "absent"
    THEN [timestamp |-> 0, project_path |-> "unknown", version |-> "initial"]
    ELSE IF meta_file.state = "corrupt"
    THEN [timestamp |-> 0, project_path |-> "unknown", version |-> "unknown_json_error"]
    ELSE [timestamp |-> meta_file.timestamp, project_path |-> meta_file.project_path,
          version |-> meta_file.version]

\* save_last_index_meta: the file content after json.dump.
save_last_index_meta(project_path_str, timestamp) ==
    [state |-> "ok", timestamp |-> timestamp, project_path |-> project_path_str,
     version |-> "1.1-ts-cli"]

\* The comparison of line 294: the stored project path against the resolved
\* project directory.
MetaMatches(s) == load_last_index_meta.project_path = Resolve(s)

\* rglob under the resolved root, filtered by extension and ignore rules.
Rglob(root) == {f \in Files : RootOf(f) = root /\ fs[f].exists}

NoRun == [mode |-> "none", project_dir_str |-> "", quiet |-> FALSE,
          count |-> 0, lost |-> {}, again |-> "no"]
NoQuery == [outcome |-> "none", error |-> FALSE, embedded |-> FALSE,
            queried |-> FALSE, read |-> {}, files |-> {}, project |-> ""]

\* The locals of index_codebase are gone once it returns.
RunVarsReset ==
    /\ project_dir_str' = ""
    /\ mode' = "none"
    /\ last_index_timestamp' = 0
    /\ candidate_files' = {}
    /\ files_to_process_map' = {}
    /\ modified_files_for_deletion_check' = {}
    /\ doc_id_offset' = 0
    /\ pending' = {}
    /\ all_embeddings' = <<>>
    /\ all_metadatas' = <<>>
    /\ all_ids' = <<>>
    /\ batch_i' = 0
    /\ lost' = {}
    /\ store0' = {}
    /\ ev0' = 0

\* -------------------------------------------------------------------- Init
NoProg == [pc |-> "none", mode |-> "none", total |-> 0, i |-> 0, stale |-> 0,
           done |-> 0, chunks |-> 0, b |-> 0, percentage |-> 0, before |-> 0]

InitMain ==
    /\ now = 1
    /\ fs = [f \in Files |-> [exists |-> TRUE, mtime |-> 1, ver |-> 1]]
    /\ edits = 0
    /\ faults = 0
    /\ collection = {}
    /\ meta_file = [state |-> "absent"]
    /\ runs = 0
    /\ pc = "idle"
    /\ project_dir_str = ""
    /\ mode = "none"
    /\ last_index_timestamp = 0
    /\ candidate_files = {}
    /\ files_to_process_map = {}
    /\ modified_files_for_deletion_check = {}
    /\ doc_id_offset = 0
    /\ pending = {}
    /\ all_embeddings = <<>>
    /\ all_metadatas = <<>>
    /\ all_ids = <<>>
    /\ batch_i = 0
    /\ lost = {}
    /\ store0 = {}
    /\ ev0 = 0
    /\ prev = NoRun
    /\ query = NoQuery

\* No helper call under examination.
NoCall == [fn |-> "none"]

Init == InitMain /\ prog = NoProg /\ call = NoCall

\* ------------------------------------------------------------- environment
\* The points of a run at which a step of the environment is observable: no
\* run in progress, between enumeration and stat, while tasks are pending,
\* and while batches are written.  Elsewhere the step commutes with the
\* run's next step.
EnvPoints == {"idle", "diff", "embed", "persist"}

\* The times recorded so far: the modification times and the stored timestamp.
RecordedTimes ==
    {fs[f].mtime : f \in Files} \cup {load_last_index_meta.timestamp}

\* The wall clock advances.  Only the order of the clock against recorded
\* times is ever observed, so the clock is advanced past a recorded time and
\* not further.
Tick ==
    /\ now < MaxTime
    /\ now \in RecordedTimes
    /\ pc \in EnvPoints
    /\ now' = now + 1
    /\ UNCHANGED <<fs, edits, faults, collection, meta_file, runs, pc, run_vars,
                   prev, query, prog, call>>

\* A file is edited: new content, modification time = now.
EditFile(f) ==
    /\ pc \in EnvPoints
    /\ edits + faults < MaxEvents
    /\ fs[f].exists
    /\ fs' = [fs EXCEPT ![f] = [exists |-> TRUE, mtime |-> now, ver |-> @.ver + 1]]
    /\ edits' = edits + 1
    /\ prev' = NoRun
    /\ UNCHANGED <<now, faults, collection, meta_file, runs, pc, run_vars, query,
                   prog, call>>

\* A file is removed from the tree.
RemoveFile(f) ==
    /\ pc \in EnvPoints
    /\ edits + faults < MaxEvents
    /\ fs[f].exists
    /\ fs' = [fs EXCEPT ![f].exists = FALSE]
    /\ edits' = edits + 1
    /\ prev' = NoRun
    /\ UNCHANGED <<now, faults, collection, meta_file, runs, pc, run_vars, query,
                   prog, call>>


\* ------------------------------------------------------------ index_codebase
\* Mutant of EffectiveTimestamp: the stored timestamp is used whatever
\* project it was written for.
EffectiveTimestampAnyProject(s, m) ==
    IF m # "full" THEN load_last_index_meta.timestamp ELSE 0

\* Lines 292-295: the stored timestamp counts only when the stored project
\* path equals the resolved project directory and the mode is not full.
EffectiveTimestamp(s, m) ==
    IF MetaMatches(s) /\ m # "full" THEN load_last_index_meta.timestamp ELSE 0

\* Mutant of IsStale: the comparison the wrong way round.
IsStaleReversed(mtime, last) == mtime < last

\* Line 341: the staleness test of update mode.
IsStale(mtime, last) == mtime > last

\* Line 408: f"doc_{doc_id_offset}_{len(all_ids)}".
DocId(offset, n) == <<offset, n>>

\* Mutant of SelectFiles: every candidate is selected.
SelectFilesAll(cands, m, last) == cands

\* Lines 334-345: the files selected for processing.
SelectFiles(cands, m, last) ==
    IF m = "full" THEN cands
    ELSE {f \in cands : fs[f].exists /\ IsStale(fs[f].mtime, last)}

\* Lines 284-289: connecting to the store raises; the run ends at once.
IndexConnectFails(s, m) ==
    /\ pc = "idle"
    /\ runs < MaxRuns
    /\ edits + faults < MaxEvents
    /\ runs' = runs + 1
    /\ faults' = faults + 1
    /\ UNCHANGED <<env_vars, collection, meta_file, pc, run_vars, prev, query, prog, call>>

\* Lines 277-316: connect, read IndexMeta, and in full mode clear the
\* collection (cleared = FALSE: a store call of the clearing raised, which is
\* reported as a warning and the run proceeds).
IndexStart(s, m, cleared) ==
    /\ pc = "idle"
    /\ runs < MaxRuns
    /\ runs' = runs + 1
    /\ project_dir_str' = s
    /\ mode' = m
    /\ last_index_timestamp' = EffectiveTimestamp(s, m)
    /\ IF m = "full" /\ cleared
       THEN collection' = {} /\ faults' = faults
       ELSE /\ collection' = collection
            /\ IF m = "full"
               THEN edits + faults < MaxEvents /\ faults' = faults + 1
               ELSE cleared /\ faults' = faults
    /\ candidate_files' = {}
    /\ files_to_process_map' = {}
    /\ modified_files_for_deletion_check' = {}
    /\ doc_id_offset' = 0
    /\ pending' = {}
    /\ all_embeddings' = <<>>
    /\ all_metadatas' = <<>>
    /\ all_ids' = <<>>
    /\ batch_i' = 0
    /\ lost' = {}
    /\ store0' = collection'
    /\ ev0' = edits + faults
    /\ pc' = "scan"
    /\ UNCHANGED <<env_vars, meta_file, prev, query, prog, call>>

\* Lines 319-330: enumerate the candidate files under the resolved root.
ScanCollect ==
    /\ pc = "scan"
    /\ candidate_files' = Rglob(Resolve(project_dir_str))
    /\ pc' = "diff"
    /\ UNCHANGED <<env_vars, faults, collection, meta_file, runs,
                   project_dir_str, mode, last_index_timestamp,
                   files_to_process_map, modified_files_for_deletion_check,
                   doc_id_offset, pending, all_embeddings, all_metadatas,
                   all_ids, batch_i, lost, store0, ev0, prev, query, prog, call>>

\* Lines 332-349: decide which candidates are processed.  A candidate that
\* vanished since the enumeration is skipped in update mode.
ScanDiff ==
    /\ pc = "diff"
    /\ files_to_process_map' = SelectFiles(candidate_files, mode, last_index_timestamp)
    /\ modified_files_for_deletion_check' =
          IF mode = "update"
          THEN SelectFiles(candidate_files, mode, last_index_timestamp)
          ELSE {}
    /\ pc' = "delete"
    /\ UNCHANGED <<env_vars, faults, collection, meta_file, runs,
                   project_dir_str, mode, last_index_timestamp, candidate_files,
                   doc_id_offset, pending, all_embeddings, all_metadatas,
                   all_ids, batch_i, lost, store0, ev0, prev, query, prog, call>>

\* What a finished run leaves behind for the next one to be compared with.
\* The record of the run that ends with ev1 edits + faults so far and count
\* entries in the store.  quiet: nothing was edited and no call failed
\* during the run.  again: the run before was quiet and had the same
\* arguments, this one was quiet, and no file was edited in between (an edit
\* discards the record); "same" / "diff" tells whether both left the same
\* number of entries.
RunRecord(ev1, count) ==
    LET quiet == ev0 = ev1
        twice == quiet /\ prev.quiet /\ prev.mode = mode
                 /\ prev.project_dir_str = project_dir_str
    IN [mode |-> mode, project_dir_str |-> project_dir_str, quiet |-> quiet,
        count |-> IF quiet THEN count ELSE 0, lost |-> lost,
        again |-> IF ~twice THEN "no"
                  ELSE IF prev.count = count THEN "same" ELSE "diff"]

\* Lines 352-391: delete the old entries of the stale files (a failed
\* deletion is a warning), return early when nothing is to be processed
\* (update mode still writes IndexMeta), else fix the id offset and submit
\* one task per file.  failed: the files whose deletion raised; count_ok:
\* whether collection.count() of line 389 answered.
DeleteStale(failed, count_ok) ==
    /\ pc = "delete"
    /\ failed \subseteq modified_files_for_deletion_check
    /\ LET nf == Cardinality(failed) + (IF count_ok THEN 0 ELSE 1)
           kept == {e \in collection :
                       e.metadata.source_file \notin
                           (modified_files_for_deletion_check \ failed)}
       IN /\ edits + faults + nf <= MaxEvents
          /\ faults' = faults + nf
          /\ collection' = kept
          /\ IF files_to_process_map = {}
             THEN /\ count_ok
                  /\ meta_file' = IF mode = "update"
                                  THEN save_last_index_meta(project_dir_str, now)
                                  ELSE meta_file
                  /\ prev' = RunRecord(edits + faults + nf, Cardinality(kept))
                  /\ pc' = "idle"
                  /\ RunVarsReset
             ELSE /\ (~count_ok) => mode = "update"
                  /\ doc_id_offset' =
                        IF mode = "update"
                        THEN (IF count_ok THEN Cardinality(kept) ELSE EpochBase + now)
                        ELSE 0
                  /\ pending' = files_to_process_map
                  /\ pc' = "embed"
                  /\ UNCHANGED <<meta_file, prev, project_dir_str, mode,
                                 last_index_timestamp, candidate_files,
                                 files_to_process_map,
                                 modified_files_for_deletion_check,
                                 all_embeddings, all_metadatas, all_ids,
                                 batch_i, lost, store0, ev0>>
    /\ UNCHANGED <<env_vars, runs, query, prog, call>>


\* Lines 226-243: the (embedding, metadata) pairs of one file, in chunk
\* order, for the chunks in ok (those whose embedding succeeded).
FileResults(f, v, ok) ==
    LET Kept(c) == c \in ok
        chunks == SelectSeq([c \in 1..NumChunks(f, v) |-> c], Kept)
    IN [k \in 1..Len(chunks) |->
           [embedding |-> <<f, v, chunks[k]>>,
            metadata |-> [source_file |-> f, chunk |-> chunks[k]]]]

\* Mutant of AfterWorker: the batches are written as soon as one task is done.
AfterWorkerStreaming(left) == "persist"

\* Lines 399-418: the loop over as_completed and the executor's with block
\* end when no task is left; only then the batches are written.
AfterWorker(left) == IF left = {} THEN "persist" ELSE "embed"

\* Lines 399-415 with process_file_for_chunks_and_embeddings: as_completed
\* yields the task of file f.  The task reads the file as it is now; a file
\* that cannot be read, and a task that raised, give no results.  Each result
\* gets the next id.  ok: the chunks whose embedding succeeded.
WorkerComplete(f) ==
    /\ pc = "embed"
    /\ f \in pending
    /\ \E ok \in SUBSET (1..NumChunks(f, fs[f].ver)) :
          LET failing == fs[f].exists /\ ok # 1..NumChunks(f, fs[f].ver)
              res == FileResults(f, fs[f].ver, ok)
              base == Len(all_ids)
          IN /\ ~fs[f].exists => ok = {}
             /\ failing => edits + faults < MaxEvents
             /\ faults' = IF failing THEN faults + 1 ELSE faults
             /\ all_embeddings' =
                   all_embeddings \o [k \in 1..Len(res) |-> res[k].embedding]
             /\ all_metadatas' =
                   all_metadatas \o [k \in 1..Len(res) |-> res[k].metadata]
             /\ all_ids' = all_ids \o
                   [k \in 1..Len(res) |-> DocId(doc_id_offset, base + k - 1)]
    /\ pending' = pending \ {f}
    /\ pc' = AfterWorker(pending')
    /\ UNCHANGED <<env_vars, collection, meta_file, runs, project_dir_str, mode,
                   last_index_timestamp, candidate_files, files_to_process_map,
                   modified_files_for_deletion_check, doc_id_offset, batch_i,
                   lost, store0, ev0, prev, query, prog, call>>

\* The entries of the batch that starts at index i (0-based) of the lists.
Batch(i) ==
    {[id |-> all_ids[k], embedding |-> all_embeddings[k], metadata |-> all_metadatas[k]] :
        k \in (i + 1)..Min(i + batch_size, Len(all_embeddings))}

\* Lines 421-433: one collection.add per batch.  how = "added": the batch is
\* stored; "raised": the store call failed, nothing is stored; when an id of
\* the batch is already in the store, add() either raises for the whole
\* batch ("dup_raised") or leaves the existing entry alone and stores the
\* rest ("dup_ignored"), depending on the store's version.
PersistBatch(how) ==
    /\ pc = "persist"
    /\ batch_i < Len(all_embeddings)
    /\ LET b == Batch(batch_i)
           dup == \E e \in b : e.id \in StoreIds
           srcs == {e.metadata.source_file : e \in b}
       IN \/ /\ how = "added" /\ ~dup
             /\ collection' = collection \cup b
             /\ UNCHANGED <<faults, lost>>
          \/ /\ how = "raised" /\ edits + faults < MaxEvents
             /\ faults' = faults + 1
             /\ lost' = lost \cup srcs
             /\ UNCHANGED collection
          \/ /\ how = "dup_raised" /\ dup
             /\ lost' = lost \cup srcs
             /\ UNCHANGED <<faults, collection>>
          \/ /\ how = "dup_ignored" /\ dup
             /\ collection' = collection \cup {e \in b : e.id \notin StoreIds}
             /\ UNCHANGED <<faults, lost>>
    /\ batch_i' = batch_i + batch_size
    /\ UNCHANGED <<env_vars, meta_file, runs, pc, project_dir_str, mode,
                   last_index_timestamp, candidate_files, files_to_process_map,
                   modified_files_for_deletion_check, doc_id_offset, pending,
                   all_embeddings, all_metadatas, all_ids, store0, ev0, prev,
                   query, prog, call>>

\* Lines 435-447: after the batches.  With embeddings the "completed" event
\* reads collection.count() before IndexMeta is written: when that call
\* raises (count_ok = FALSE) the run ends with the exception and IndexMeta
\* is not written.  Without embeddings IndexMeta is written in update mode
\* only.
Finish(count_ok) ==
    /\ pc = "persist"
    /\ batch_i >= Len(all_embeddings)
    /\ (~count_ok) => (all_embeddings # <<>> /\ edits + faults < MaxEvents)
    /\ faults' = IF count_ok THEN faults ELSE faults + 1
    /\ LET saved == count_ok /\ (all_embeddings # <<>> \/ mode = "update")
       IN /\ meta_file' = IF saved THEN save_last_index_meta(project_dir_str, now)
                          ELSE meta_file
          /\ prev' = RunRecord(edits + faults', Count)
    /\ pc' = "idle"
    /\ RunVarsReset
    /\ UNCHANGED <<env_vars, collection, runs, query, prog, call>>


\* ---------------------------------------------- query_and_get_context_files
\* Mutant of QueryRejected: only a missing IndexMeta rejects the query.
QueryRejectedWhenAbsent(s) == load_last_index_meta.project_path = "unknown"

\* Line 455: the store is not applicable to the queried project.  The store
\* directory exists (the entry point creates it) and the loaded record is
\* never empty, so the test is the project path comparison.
QueryRejected(s) == load_last_index_meta.project_path # Resolve(s)

\* Lines 472-559: the files of the chunks the store returns.  The store
\* holds fewer than 5 * TOP_K_FILES_TO_RETRIEVE entries of at most
\* TOP_K_FILES_TO_RETRIEVE files here, so every entry is returned and every
\* file is within the top k.
RankedFiles == {e.metadata.source_file : e \in collection}

\* Lines 450-575, one whole query for project path string s.  fail names the
\* call that raises: "no" none, "connect" get_collection, "embed" the query
\* embedding, "query" collection.query.
Query(s, fail) ==
    /\ pc = "idle"
    /\ fail # "no" => edits + faults < MaxEvents
    /\ query' =
         IF QueryRejected(s)
         THEN [outcome |-> "rejected", error |-> TRUE, embedded |-> FALSE,
               queried |-> FALSE, read |-> {}, files |-> {}, project |-> s]
         ELSE IF fail = "connect"
         THEN [outcome |-> "connect_error", error |-> TRUE, embedded |-> FALSE,
               queried |-> FALSE, read |-> {}, files |-> {}, project |-> s]
         ELSE IF fail = "embed"
         THEN [outcome |-> "embed_error", error |-> TRUE, embedded |-> TRUE,
               queried |-> FALSE, read |-> {}, files |-> {}, project |-> s]
         ELSE IF fail = "query"
         THEN [outcome |-> "query_error", error |-> TRUE, embedded |-> TRUE,
               queried |-> TRUE, read |-> {}, files |-> {}, project |-> s]
         ELSE IF collection = {}
         THEN [outcome |-> "empty", error |-> FALSE, embedded |-> TRUE,
               queried |-> TRUE, read |-> {}, files |-> {}, project |-> s]
         ELSE [outcome |-> "ok", error |-> FALSE, embedded |-> TRUE,
               queried |-> TRUE, read |-> RankedFiles,
               files |-> {f \in RankedFiles : fs[f].exists}, project |-> s]
    /\ faults' = IF fail # "no" /\ ~QueryRejected(s) THEN faults + 1 ELSE faults
    /\ (QueryRejected(s) => fail = "no")
    /\ pc' = "queried"
    /\ UNCHANGED <<env_vars, collection, meta_file, runs, run_vars, prev, prog, call>>

\* The query process hands its result to the caller and exits.
QueryReturn ==
    /\ pc = "queried"
    /\ query' = NoQuery
    /\ pc' = "idle"
    /\ UNCHANGED <<env_vars, faults, collection, meta_file, runs, run_vars, prev,
                   prog, call>>

\* -------------------------------------------------------------------- Next
Next ==
    \/ Tick
    \/ \E f \in Files : EditFile(f)
    \/ \E f \in Files : RemoveFile(f)
    \/ \E s \in PathStrs, m \in {"full", "update"} : IndexConnectFails(s, m)
    \/ \E s \in PathStrs, m \in {"full", "update"}, cleared \in BOOLEAN :
          IndexStart(s, m, cleared)
    \/ ScanCollect
    \/ ScanDiff
    \/ \E failed \in SUBSET Files, count_ok \in BOOLEAN : DeleteStale(failed, count_ok)
    \/ \E f \in Files : WorkerComplete(f)
    \/ \E how \in {"added", "raised", "dup_raised", "dup_ignored"} : PersistBatch(how)
    \/ \E count_ok \in BOOLEAN : Finish(count_ok)
    \/ \E s \in PathStrs, fail \in {"no", "connect", "embed", "query"} : Query(s, fail)
    \/ QueryReturn

Spec == Init /\ [][Next]_vars


(***************************************************************************)
(* The progress events of index_codebase.  A run is followed by counts     *)
(* only: prog.total candidate files, prog.stale of them selected, and      *)
(* prog.chunks embeddings, one loop iteration per step.  prog.percentage   *)
(* is the percentage of the last progress event and prog.before the one    *)
(* of the event before it.                                                 *)
(***************************************************************************)
\* int(x / y) for non-negative x and positive y.
IntDiv(x, y) == x \div y

\* Line 349: 5 + int(25 * (i+1) / len(candidate_files)), k = i + 1.
ScanPct(k, total) == 5 + IntDiv(25 * k, total)

\* Line 366: 30 + int(10 * delete_progress_count / len(modified_files...)).
DeletePct(k, total) == 30 + IntDiv(10 * k, total)

\* Mutant of EmbedPct: the embedding phase starts from the scan's 30.
EmbedPctFromScan(k, total) == 30 + IntDiv(50 * k, total)

\* Line 415: 40 + int(50 * processed_file_count / len(files_to_process_map)).
EmbedPct(k, total) == 40 + IntDiv(50 * k, total)

\* Line 433: 90 + int(10 * current_progress_in_batching / len(all_embeddings)).
BatchPct(k, total) == 90 + IntDiv(10 * k, total)

\* A progress event with percentage p.
Emit(r, p) == [r EXCEPT !.before = r.percentage, !.percentage = p]

\* The numbers of embeddings a run may end up with: around the batch limits.
ChunkTotals ==
    {q * batch_size + r : q \in 0..MaxBatches, r \in {0, 1, batch_size - 1}}

\* Line 369 after the scan and the deletions: nothing to process ends the run.
AfterDeletions(stale) == IF stale = 0 THEN "done" ELSE "embed"

\* Where the run goes after the scan loop (lines 352, 369).
AfterScan(m, stale) ==
    IF m = "update" /\ stale > 0 THEN "delete" ELSE AfterDeletions(stale)

InitProgress ==
    /\ InitMain
    /\ prog \in {[NoProg EXCEPT !.pc = "start", !.mode = m, !.total = n] :
                    m \in {"full", "update"}, n \in 0..MaxCandidates}
    /\ call = NoCall

\* Line 330: "Found n candidate files", percentage 5.
PFound ==
    /\ prog.pc = "start"
    /\ prog' = [Emit(prog, 5) EXCEPT
                   !.pc = IF prog.total = 0 THEN "done" ELSE "scan"]
    /\ UNCHANGED <<now, fs, edits, faults, collection, meta_file, runs, pc,
                   run_vars, prev, query, call>>

\* Lines 334-349, one iteration.  what: the file is selected ("stale"), is
\* up to date ("fresh") or vanished since the enumeration ("vanished": the
\* continue of line 345 skips the progress event).
PScanStep(what) ==
    /\ prog.pc = "scan"
    /\ prog.mode = "full" => what = "stale"
    /\ LET k == prog.i + 1
           st == prog.stale + (IF what = "stale" THEN 1 ELSE 0)
           r == [prog EXCEPT !.i = k, !.stale = st,
                    !.pc = IF k = prog.total THEN AfterScan(prog.mode, st) ELSE "scan"]
       IN prog' = IF what # "vanished" /\ (k % 50 = 0 \/ k = prog.total)
                  THEN Emit(r, ScanPct(k, prog.total))
                  ELSE r
    /\ UNCHANGED <<now, fs, edits, faults, collection, meta_file, runs, pc,
                   run_vars, prev, query, call>>

\* Lines 357-366, one iteration of the deletion loop.
PDeleteStep ==
    /\ prog.pc = "delete"
    /\ LET k == prog.done + 1
           r == IF k = prog.stale
                THEN [prog EXCEPT !.done = 0, !.pc = AfterDeletions(prog.stale)]
                ELSE [prog EXCEPT !.done = k]
       IN prog' = IF k % 10 = 0 \/ k = prog.stale
                  THEN Emit(r, DeletePct(k, prog.stale))
                  ELSE r
    /\ UNCHANGED <<now, fs, edits, faults, collection, meta_file, runs, pc,
                   run_vars, prev, query, call>>

\* Lines 399-415, one completed task; the last one fixes the number c of
\* embeddings the run collected (line 418).
PEmbedStep(c) ==
    /\ prog.pc = "embed"
    /\ LET k == prog.done + 1
           r == IF k = prog.stale
                THEN [prog EXCEPT !.done = k, !.chunks = c,
                         !.pc = IF c > 0 THEN "batch" ELSE "done"]
                ELSE [prog EXCEPT !.done = k]
       IN /\ k # prog.stale => c = 0
          /\ prog' = IF k % 10 = 0 \/ k = prog.stale
                     THEN Emit(r, EmbedPct(k, prog.stale))
                     ELSE r
    /\ UNCHANGED <<now, fs, edits, faults, collection, meta_file, runs, pc,
                   run_vars, prev, query, call>>

\* Lines 421-433, one batch.
PBatchStep ==
    /\ prog.pc = "batch"
    /\ LET cur == prog.b + Min(batch_size, prog.chunks - prog.b)
           nb == prog.b + batch_size
           r == [prog EXCEPT !.b = nb,
                    !.pc = IF nb >= prog.chunks THEN "done" ELSE "batch"]
       IN prog' = Emit(r, BatchPct(cur, prog.chunks))
    /\ UNCHANGED <<now, fs, edits, faults, collection, meta_file, runs, pc,
                   run_vars, prev, query, call>>

NextProgress ==
    \/ PFound
    \/ \E what \in {"stale", "fresh", "vanished"} : PScanStep(what)
    \/ PDeleteStep
    \/ \E c \in ChunkTotals : PEmbedStep(c)
    \/ PBatchStep

SpecProgress == InitProgress /\ [][NextProgress]_vars


(***************************************************************************)
(* get_ollama_embedding and the result loop of                             *)
(* process_file_for_chunks_and_embeddings, for the chunks of one file.     *)
(* call.texts are the chunk texts (chunk c has text c), call.backend[k] is *)
(* what the embedding backend does for the k-th request.                   *)
(***************************************************************************)
\* What the backend does for one request: it answers with a vector, it
\* raises (error, timeout), or it answers with a vector of no dimensions.
BackendOutcomes == {"vec", "raise", "empty"}

\* The values an element of the list of embeddings takes.
VecOf(c) == [null |-> FALSE, dims |-> 1, of |-> c]
EmptyVec(c) == [null |-> FALSE, dims |-> 0, of |-> c]
None == [null |-> TRUE, dims |-> 0, of |-> 0]

\* Python's truth value of an element of the list: None and [] are false.
Truthy(e) == ~e.null /\ e.dims > 0

\* Mutant of EmbedOne: a request that raises appends nothing.
EmbedOneDroppingFailure(embeddings, text, outcome) ==
    IF outcome = "vec" THEN Append(embeddings, VecOf(text))
    ELSE IF outcome = "empty" THEN Append(embeddings, EmptyVec(text))
    ELSE embeddings

\* Lines 152-158, one iteration: the answer is appended, None when the
\* request raised.
EmbedOne(embeddings, text, outcome) ==
    IF outcome = "vec" THEN Append(embeddings, VecOf(text))
    ELSE IF outcome = "empty" THEN Append(embeddings, EmptyVec(text))
    ELSE Append(embeddings, None)

\* Lines 234-242: the metadata of chunk c.
ChunkMetadata(c) == [source_file |-> "/a/x", chunk |-> c]

InitEmbed ==
    /\ InitMain
    /\ prog = NoProg
    /\ \E n \in 0..MaxTexts :
         \E b \in [1..n -> BackendOutcomes] :
            call = [fn |-> "embed", pc |-> "embedding",
                    texts |-> [k \in 1..n |-> k], backend |-> b,
                    j |-> 0, embeddings |-> <<>>, i |-> 0, results |-> <<>>]

\* get_ollama_embedding, one iteration of the loop of line 152; after the
\* last text the list is returned (line 159).
EmbedRequest ==
    /\ call.pc = "embedding"
    /\ LET k == call.j + 1
       IN IF k > Len(call.texts)
          THEN call' = [call EXCEPT !.pc = "filter"]
          ELSE call' = [call EXCEPT
                  !.j = k,
                  !.embeddings = EmbedOne(@, call.texts[k], call.backend[k])]
    /\ UNCHANGED <<now, fs, edits, faults, collection, meta_file, runs, pc,
                   run_vars, prev, query, prog>>

\* Lines 232-243, one iteration: chunk i is kept when its embedding is true.
FilterResult ==
    /\ call.pc = "filter"
    /\ IF call.i >= Len(call.texts)
       THEN call' = [call EXCEPT !.pc = "done"]
       ELSE LET k == call.i + 1
                e == call.embeddings[k]
            IN call' = [call EXCEPT
                  !.i = k,
                  !.results = IF Truthy(e)
                              THEN Append(@, [embedding |-> e,
                                              metadata |-> ChunkMetadata(call.texts[k])])
                              ELSE @]
    /\ UNCHANGED <<now, fs, edits, faults, collection, meta_file, runs, pc,
                   run_vars, prev, query, prog>>

NextEmbed == EmbedRequest \/ FilterResult

SpecEmbed == InitEmbed /\ [][NextEmbed]_vars


(***************************************************************************)
(* The batch loop of index_codebase over lists of call.n entries.  The     *)
(* lists are followed by positions (0-based): a slice is the pair          *)
(* <<lo, hi>> of the positions lo..hi-1 it takes.                          *)
(***************************************************************************)
\* Mutant of PySlice: the upper end is taken inclusive.
PySliceInclusive(i, j, n) == <<Min(i, n), Min(j + 1, n)>>

\* Python's list[i:j] on a list of n elements, 0 <= i <= j.
PySlice(i, j, n) == <<Min(i, n), Min(j, n)>>

\* Lines 423-427: the arguments of one collection.add.
AddArgs(i, n) ==
    [embeddings |-> PySlice(i, i + batch_size, n),
     metadatas  |-> PySlice(i, i + batch_size, n),
     ids        |-> PySlice(i, i + batch_size, n)]

\* The entries a collection.add with arguments a stores: the p-th id with the
\* p-th embedding and the p-th metadata, as positions of the three lists.
AddedEntries(a) ==
    {[id |-> a.ids[1] + p, embedding |-> a.embeddings[1] + p,
      metadata |-> a.metadatas[1] + p] : p \in 0..(a.ids[2] - a.ids[1] - 1)}

InitBatch ==
    /\ InitMain
    /\ prog = NoProg
    /\ \E n \in 1..(MaxBatches * batch_size + 1) :
          call = [fn |-> "batch", pc |-> "loop", n |-> n, i |-> 0,
                  attempts |-> <<>>, stored |-> {}, errors |-> 0]

\* Lines 421-433, one iteration of the loop of range(0, n, batch_size):
\* collection.add stores the batch (raised = FALSE) or raises, which is
\* reported as an error event; the loop goes on either way.
BatchAdd(raised) ==
    /\ call.pc = "loop"
    /\ call.i < call.n
    /\ LET a == AddArgs(call.i, call.n)
       IN call' = [call EXCEPT
             !.i = @ + batch_size,
             !.attempts = Append(@, [args |-> a, raised |-> raised]),
             !.stored = IF raised THEN @ ELSE @ \cup AddedEntries(a),
             !.errors = IF raised THEN @ + 1 ELSE @]
    /\ UNCHANGED <<now, fs, edits, faults, collection, meta_file, runs, pc,
                   run_vars, prev, query, prog>>

\* The range is exhausted: line 435.
BatchLoopEnd ==
    /\ call.pc = "loop"
    /\ call.i >= call.n
    /\ call' = [call EXCEPT !.pc = "done"]
    /\ UNCHANGED <<now, fs, edits, faults, collection, meta_file, runs, pc,
                   run_vars, prev, query, prog>>

NextBatch == (\E raised \in BOOLEAN : BatchAdd(raised)) \/ BatchLoopEnd

SpecBatch == InitBatch /\ [][NextBatch]_vars


(***************************************************************************)
(* chunk_code_by_lines.  A line is a sequence of characters of two kinds:  *)
(* "s" a whitespace character, "x" any other; "n" is the line separator    *)
(* in a text.                                                              *)
(***************************************************************************)
Max(a, b) == IF a > b THEN a ELSE b

CodeLine == <<"x">>
BlankLine == <<>>
SpaceLine == <<"s">>
IndentedLine == <<"s", "x", "s">>

\* "\n".join(ls)
RECURSIVE Join(_)
Join(ls) ==
    IF ls = <<>> THEN <<>>
    ELSE IF Len(ls) = 1 THEN ls[1]
    ELSE ls[1] \o <<"n">> \o Join(Tail(ls))

IsSpace(c) == c \in {"s", "n"}

\* str.lstrip, str.rstrip, str.strip
RECURSIVE LStrip(_)
LStrip(s) == IF s # <<>> /\ IsSpace(s[1]) THEN LStrip(Tail(s)) ELSE s

RECURSIVE RStrip(_)
RStrip(s) ==
    IF s # <<>> /\ IsSpace(s[Len(s)]) THEN RStrip(SubSeq(s, 1, Len(s) - 1)) ELSE s

Strip(s) == RStrip(LStrip(s))

\* lines[i : j] for 0 <= i <= j.
LinesSlice(lines, i, j) == SubSeq(lines, i + 1, Min(j, Len(lines)))

\* Mutant of AdvanceBy: the window moves on past the line after its end.
AdvanceByPastWindow(max_lines, overlap_lines) == max_lines + 1

\* Mutant of AdvanceBy: the step is kept from being negative only.
AdvanceByClampedAtZero(max_lines, overlap_lines) ==
    Max(0, max_lines - overlap_lines)

\* Mutant of AdvanceBy: the window moves on by its full size.
AdvanceByWindow(max_lines, overlap_lines) == max_lines

\* Line 143: max(1, max_lines - overlap_lines).
AdvanceBy(max_lines, overlap_lines) == Max(1, max_lines - overlap_lines)

\* The parameters of the one call site (lines 216-221) and small ones.
ChunkParams ==
    {[min_lines |-> MIN_CHUNK_SIZE_LINES_FALLBACK,
      max_lines |-> MAX_CHUNK_SIZE_LINES_FALLBACK,
      overlap_lines |-> OVERLAP_LINES_FALLBACK],
     [min_lines |-> 2, max_lines |-> 3, overlap_lines |-> 1],
     [min_lines |-> 1, max_lines |-> 2, overlap_lines |-> 2]}

\* File contents of n lines for the parameters of the call site: code only,
\* a blank first window, a second window of spaces only, indented lines with
\* trailing spaces, a blank first line.
Layouts(n) ==
    {[k \in 1..n |-> CodeLine],
     [k \in 1..n |-> IF k <= MAX_CHUNK_SIZE_LINES_FALLBACK THEN BlankLine ELSE CodeLine],
     [k \in 1..n |-> IF k > MAX_CHUNK_SIZE_LINES_FALLBACK - OVERLAP_LINES_FALLBACK
                     THEN SpaceLine ELSE CodeLine],
     [k \in 1..n |-> IndentedLine],
     [k \in 1..n |-> IF k = 1 THEN BlankLine ELSE CodeLine]}

\* Every file content of n lines, for the small parameters.
AllLayouts(n) == [1..n -> {CodeLine, BlankLine, SpaceLine, IndentedLine}]

\* The content has a character that is no whitespace: line 202 returns
\* before the chunker for any other content.
HasCode(lines) == Strip(Join(lines)) # <<>>

InitChunk ==
    /\ InitMain
    /\ prog = NoProg
    /\ \E q \in ChunkParams :
         \E n \in 1..(IF q.max_lines = MAX_CHUNK_SIZE_LINES_FALLBACK
                      THEN MaxLines ELSE MaxSmallLines) :
           \E ls \in (IF q.max_lines = MAX_CHUNK_SIZE_LINES_FALLBACK
                      THEN Layouts(n) ELSE AllLayouts(n)) :
              /\ HasCode(ls)
              /\ call = [fn |-> "chunk", pc |-> "loop", lines |-> ls,
                         min_lines |-> q.min_lines, max_lines |-> q.max_lines,
                         overlap_lines |-> q.overlap_lines,
                         i |-> 0, current_chunk_start_line |-> 0, chunks |-> <<>>,
                         discarded |-> 0]

\* Lines 122-145, one iteration of the while loop; line 147 when it ends.
ChunkWindow ==
    /\ call.pc = "loop"
    /\ LET n == Len(call.lines)
           chunk_lines == LinesSlice(call.lines, call.i, call.i + call.max_lines)
           len == Len(chunk_lines)
           chunk_text == Strip(Join(chunk_lines))
           emitted ==
               IF chunk_text # <<>>
               THEN Append(call.chunks,
                       [text |-> chunk_text,
                        start_line |-> call.current_chunk_start_line,
                        end_line |-> call.current_chunk_start_line + len - 1])
               ELSE call.chunks
           advance_by == AdvanceBy(call.max_lines, call.overlap_lines)
       IN IF call.i >= n
          THEN call' = [call EXCEPT !.pc = "done"]
          ELSE IF len < call.min_lines /\ call.i + len < n
          THEN call' = [call EXCEPT
                  !.i = @ + len,
                  !.current_chunk_start_line = @ + len,
                  !.discarded = @ + len]
          ELSE IF call.i + len >= n
          THEN call' = [call EXCEPT !.chunks = emitted, !.pc = "done"]
          ELSE call' = [call EXCEPT
                  !.chunks = emitted,
                  !.i = @ + advance_by,
                  !.current_chunk_start_line = @ + advance_by]
    /\ UNCHANGED <<now, fs, edits, faults, collection, meta_file, runs, pc,
                   run_vars, prev, query, prog>>

NextChunk == ChunkWindow

SpecChunk == InitChunk /\ [][NextChunk]_vars

\* Every choice of parameters with max_lines >= 1 up to MaxParam: min_lines
\* from 0 to above max_lines, overlap_lines from negative to above
\* max_lines.
ChunkParamsAny ==
    [min_lines : 0..(MaxParam + 1), max_lines : 1..MaxParam,
     overlap_lines : (-1)..(MaxParam + 1)]

\* Every file content of n lines made of code lines and blank lines.
CodeLayouts(n) == [1..n -> {CodeLine, BlankLine}]

\* chunk_code_by_lines called with any parameters on any such content.
InitChunkAny ==
    /\ InitMain
    /\ prog = NoProg
    /\ \E q \in ChunkParamsAny :
         \E n \in 1..MaxSmallLines :
           \E ls \in CodeLayouts(n) :
              /\ HasCode(ls)
              /\ call = [fn |-> "chunk", pc |-> "loop", lines |-> ls,
                         min_lines |-> q.min_lines, max_lines |-> q.max_lines,
                         overlap_lines |-> q.overlap_lines,
                         i |-> 0, current_chunk_start_line |-> 0, chunks |-> <<>>,
                         discarded |-> 0]

SpecChunkAny == InitChunkAny /\ [][NextChunk]_vars

\* The loop is the only thing the call does: it keeps taking iterations
\* until it ends.
SpecChunkFair == InitChunkAny /\ [][NextChunk]_vars /\ WF_vars(NextChunk)


(***************************************************************************)
(* The scoring loop of query_and_get_context_files.  Floating-point        *)
(* numbers are kept to FloatBits significant bits, rounded to nearest      *)
(* (ties to even) after every operation, as the machine's floats are to    *)
(* their 53.  A distance is a number of units of 1 / EpsUnits of the       *)
(* epsilon 1e-6; a score is a number of units of 1 / ScoreUnits.           *)
(***************************************************************************)
\* The number of bits of x above the FloatBits kept.
RECURSIVE ExcessBits(_)
ExcessBits(x) == IF x < 2 ^ FloatBits THEN 0 ELSE 1 + ExcessBits(x \div 2)

\* x rounded to FloatBits significant bits, nearest, ties to even.
RoundSig(x) ==
    LET sh == ExcessBits(x)
        unit == 2 ^ sh
        q == x \div unit
        r == x % unit
        up == (2 * r > unit) \/ (2 * r = unit /\ q % 2 = 1)
    IN (IF up THEN q + 1 ELSE q) * unit

\* The store gave no usable distance for the chunk (None, no list, or a
\* value float() does not take).
Missing == -1

\* Mutant of DistanceScore: the score grows with the distance.
DistanceScoreGrowing(d) == RoundSig(d + EpsUnits)

\* Line 534: 1.0 / (distance_value + 1e-6), the sum and the quotient rounded.
DistanceScore(d) ==
    RoundSig((ScoreUnits * EpsUnits * InvEpsilon) \div RoundSig(d + EpsUnits))

\* Line 473: num_chunks_to_retrieve = top_k_files * 5.
num_chunks_to_retrieve == TOP_K_FILES_TO_RETRIEVE * 5

\* Lines 538, 541: float(num_chunks_to_retrieve - i), i the 0-based rank.
FallbackScore(i) == ScoreUnits * (num_chunks_to_retrieve - i)

\* Lines 529-541: the score of the item at rank i with distance d.
CurrentScore(i, d) == IF d # Missing THEN DistanceScore(d) ELSE FallbackScore(i)

\* Distances the store may report: 0, far below the epsilon, the epsilon,
\* 1.0 and 4.0.
DistanceValues ==
    {0, 1, EpsUnits, EpsUnits * InvEpsilon, 4 * EpsUnits * InvEpsilon}

\* The store returns the chunks by increasing distance.
Ascending(ds) ==
    \A i, j \in 1..Len(ds) :
        (i < j /\ ds[i] # Missing /\ ds[j] # Missing) => ds[i] <= ds[j]

InitScore ==
    /\ InitMain
    /\ prog = NoProg
    /\ \E n \in 1..MaxChunks :
         \E ds \in [1..n -> DistanceValues \cup {Missing}] :
            /\ Ascending(ds)
            /\ call = [fn |-> "score", pc |-> "loop", distances |-> ds,
                       i |-> 0, scores |-> <<>>]

\* Lines 519-557, one iteration: the score of item i.
ScoreItem ==
    /\ call.pc = "loop"
    /\ IF call.i >= Len(call.distances)
       THEN call' = [call EXCEPT !.pc = "done"]
       ELSE call' = [call EXCEPT
               !.i = @ + 1,
               !.scores = Append(@, CurrentScore(call.i, call.distances[call.i + 1]))]
    /\ UNCHANGED <<now, fs, edits, faults, collection, meta_file, runs, pc,
                   run_vars, prev, query, prog>>

NextScore == ScoreItem

SpecScore == InitScore /\ [][NextScore]_vars


(***************************************************************************)
(* The ranking of query_and_get_context_files: the per-file sums, the      *)
(* sort, and the reading of the top files.  Files are numbered 1, 2, ...;  *)
(* an item of the store's result is [source_file, score], source_file 0    *)
(* for an item whose metadata has no source_file.                          *)
(***************************************************************************)
NoSource == 0

\* The store's results the ranking is run on: n items over nf files, item j
\* of file 1 + ((j - 1) mod nf), every fifth item without source_file when
\* holes; the scores fall with the rank, are all equal, or rise with it.
RankItems(n, nf, profile, holes) ==
    [j \in 1..n |->
        [source_file |-> IF holes /\ j % 5 = 0 THEN NoSource ELSE 1 + ((j - 1) % nf),
         score |-> IF profile = "falling" THEN n + 1 - j
                   ELSE IF profile = "equal" THEN 1
                   ELSE j]]

\* sorted(file_scores.items(), key = score, reverse = True) of line 559 on
\* the files of the sequence order (the dict's insertion order): the sort is
\* stable, files of equal score stay in insertion order.
RECURSIVE SortedByScore(_, _)
SortedByScore(order, file_scores) ==
    IF order = <<>> THEN <<>>
    ELSE LET best == CHOOSE k \in 1..Len(order) :
                        /\ \A l \in 1..Len(order) :
                              file_scores[order[l]] <= file_scores[order[k]]
                        /\ \A l \in 1..(k - 1) :
                              file_scores[order[l]] < file_scores[order[k]]
             Other(f) == f # order[best]
         IN <<order[best]>> \o SortedByScore(SelectSeq(order, Other), file_scores)

\* Mutant of TopFiles: every ranked file is read.
TopFilesUncut(sorted_files) == sorted_files

\* Line 562: sorted_files[:top_k_files].
TopFiles(sorted_files) ==
    SubSeq(sorted_files, 1, Min(TOP_K_FILES_TO_RETRIEVE, Len(sorted_files)))

InitRank ==
    /\ InitMain
    /\ prog = NoProg
    /\ \E nf \in 1..MaxFiles, per \in 1..MaxPerFile, holes \in BOOLEAN,
          profile \in {"falling", "equal", "rising"} :
         \E unreadable \in {{}, {1}, {nf}, 1..nf} :
            /\ nf * per <= num_chunks_to_retrieve
            /\ call = [fn |-> "rank", pc |-> "loop",
                       items |-> RankItems(nf * per, nf, profile, holes),
                       unreadable |-> unreadable,
                       i |-> 0, order |-> <<>>, file_scores |-> <<>>,
                       sorted_files |-> <<>>, k |-> 0, retrieved |-> <<>>]

\* Lines 519-557, one iteration: the item's score is added to its file's
\* sum; an item without source_file is skipped.  file_scores is kept as a
\* function on the files numbered 1..Len(order) in insertion order.
RankItem ==
    /\ call.pc = "loop"
    /\ IF call.i >= Len(call.items)
       THEN call' = [call EXCEPT
               !.pc = "read",
               !.sorted_files = SortedByScore(call.order, call.file_scores)]
       ELSE LET it == call.items[call.i + 1]
                f == it.source_file
                known == \E l \in 1..Len(call.order) : call.order[l] = f
            IN IF f = NoSource
               THEN call' = [call EXCEPT !.i = @ + 1]
               ELSE call' = [call EXCEPT
                       !.i = @ + 1,
                       !.order = IF known THEN @ ELSE Append(@, f),
                       !.file_scores =
                           IF known THEN [@ EXCEPT ![f] = @ + it.score]
                           ELSE [g \in (DOMAIN @) \cup {f} |->
                                    IF g = f THEN it.score ELSE @[g]]]
    /\ UNCHANGED <<now, fs, edits, faults, collection, meta_file, runs, pc,
                   run_vars, prev, query, prog>>

\* Lines 562-573, one iteration: the file is read and appended with its
\* score; a file that cannot be read is reported and skipped.
ReadFile ==
    /\ call.pc = "read"
    /\ LET top == TopFiles(call.sorted_files)
       IN IF call.k >= Len(top)
          THEN call' = [call EXCEPT !.pc = "done"]
          ELSE LET f == top[call.k + 1]
               IN call' = [call EXCEPT
                     !.k = @ + 1,
                     !.retrieved =
                         IF f \in call.unreadable THEN @
                         ELSE Append(@, [file_path |-> f,
                                         relevance_score |-> call.file_scores[f]])]
    /\ UNCHANGED <<now, fs, edits, faults, collection, meta_file, runs, pc,
                   run_vars, prev, query, prog>>

NextRank == RankItem \/ ReadFile

SpecRank == InitRank /\ [][NextRank]_vars


(***************************************************************************)
(* Properties                                                              *)
(***************************************************************************)
\* The entry the run builds from position k of its three lists.
EntryAt(k) ==
    [id |-> all_ids[k], embedding |-> all_embeddings[k], metadata |-> all_metadatas[k]]

\* The files with an entry in the set of entries es.
Sources(es) == {e.metadata.source_file : e \in es}

\* All batches of the run in progress have been attempted.
BatchesDone == pc = "persist" /\ batch_i >= Len(all_ids)

\* C1: as long as no store or embedding call has failed, the ids a run
\* assigns are pairwise distinct and none of them not yet written is the id
\* of an entry already in the store.
C1_IdsNeverReused ==
    faults = 0 =>
        /\ \A j, k \in 1..Len(all_ids) : j # k => all_ids[j] # all_ids[k]
        /\ \A k \in 1..Len(all_ids) : k > batch_i => all_ids[k] \notin StoreIds

\* C2: when an update run has attempted all its batches (no call having
\* failed), then for every file that had entries, was found modified after
\* the stored timestamp of the same project and was re-indexed, the store
\* holds none of its old entries and holds every new entry of it.
C2_StaleReplaced ==
    (BatchesDone /\ mode = "update" /\ faults = 0 /\ MetaMatches(project_dir_str)) =>
        \A f \in modified_files_for_deletion_check \cap Sources(store0) :
            /\ \A e \in collection : e.metadata.source_file = f => e \notin store0
            /\ \A k \in 1..Len(all_ids) :
                  all_metadatas[k].source_file = f => EntryAt(k) \in collection

\* C3: every file a query returns lies under the queried project's root,
\* i.e. its entries were created by an index run of that project.
C3_NoForeignFiles ==
    pc = "queried" => \A f \in query.files : RootOf(f) = Resolve(query.project)

\* C4: after a run in which a batch upsert failed, the next update run of
\* the same project, no file having been edited in between, selects the
\* files whose entries were in the failed batch.
C4_SelfHealing ==
    (pc = "delete" /\ mode = "update" /\ prev.lost # {}
        /\ Resolve(prev.project_dir_str) = Resolve(project_dir_str)) =>
        \A f \in prev.lost \cap candidate_files : f \in files_to_process_map

\* C5: in an update run whose stored IndexMeta names the current project
\* root, a candidate modified before the stored timestamp is not selected,
\* and a candidate that is not selected is not deleted from the store, not
\* handed to a worker and contributes no new entry.
C5_UpdateSkipsUnchanged ==
    (mode = "update" /\ pc \in {"delete", "embed", "persist"}
        /\ meta_file.state = "ok" /\ meta_file.project_path = Resolve(project_dir_str)) =>
        /\ pc = "delete" =>
              \A f \in candidate_files :
                  fs[f].mtime < meta_file.timestamp =>
                      /\ f \notin files_to_process_map
                      /\ f \notin modified_files_for_deletion_check
        /\ \A f \in candidate_files \ files_to_process_map :
              /\ f \notin pending
              /\ \A k \in 1..Len(all_metadatas) : all_metadatas[k].source_file # f
              /\ \A e \in store0 : e.metadata.source_file = f => e \in collection

\* C5 witness: an update run for the stored project has deleted the old
\* entries of its stale files while a candidate older than the timestamp,
\* with entries in the store, was left alone.
C5_Witness ==
    /\ mode = "update" /\ pc = "embed"
    /\ meta_file.state = "ok" /\ meta_file.project_path = Resolve(project_dir_str)
    /\ \E f \in candidate_files \ files_to_process_map :
          /\ fs[f].mtime < meta_file.timestamp
          /\ f \in Sources(collection)
    /\ \E g \in files_to_process_map : g \in Sources(store0) \ Sources(collection)

\* C6: every update run that got past the scan ends by writing IndexMeta
\* with the current time and the project path, the time not smaller than
\* the one stored before.
C6_UpdateWritesMeta ==
    [][(mode = "update" /\ pc \in {"delete", "persist"} /\ pc' = "idle") =>
          /\ meta_file' = save_last_index_meta(project_dir_str, now)
          /\ now >= load_last_index_meta.timestamp]_vars

\* C7: in an update run whose stored IndexMeta is absent or names another
\* project, every candidate that is still there is selected, and every
\* entry of a file that is not selected stays in the store.
C7_MismatchAllStale ==
    (mode = "update" /\ pc \in {"delete", "embed", "persist"}
        /\ (meta_file.state # "ok" \/ meta_file.project_path # Resolve(project_dir_str))) =>
        /\ pc = "delete" =>
              \A f \in candidate_files : fs[f].exists => f \in files_to_process_map
        /\ \A e \in store0 :
              e.metadata.source_file \notin files_to_process_map => e \in collection

\* C7 witness: an update run for a project other than the stored one has
\* written its batches; its candidate was selected although it is not newer
\* than the stored timestamp, and the other project's entries are in the store.
C7_Witness ==
    /\ mode = "update" /\ BatchesDone
    /\ meta_file.state = "ok" /\ meta_file.project_path # Resolve(project_dir_str)
    /\ \E f \in files_to_process_map : fs[f].mtime <= meta_file.timestamp
    /\ \E e \in store0 : e.metadata.source_file \notin files_to_process_map
    /\ Sources(collection) \cap files_to_process_map # {}

\* C8: when full mode has run twice in a row with the same arguments, no
\* file edited and no call failed meanwhile, and entries were stored, both
\* runs left the same number of entries and the stored project path is the
\* project root.
C8_FullTwiceIdempotent ==
    (pc = "idle" /\ prev.mode = "full" /\ prev.again # "no" /\ prev.count > 0) =>
        /\ prev.again = "same"
        /\ meta_file.state = "ok"
        /\ meta_file.project_path = Resolve(prev.project_dir_str)

\* C9: a query for a project the stored IndexMeta does not name (or with no
\* IndexMeta) returns the empty result with an error event, without
\* embedding the query, querying the store or reading a file.
C9_MismatchQueryRejected ==
    (pc = "queried"
        /\ (meta_file.state # "ok" \/ meta_file.project_path # Resolve(query.project))) =>
        /\ query.outcome = "rejected"
        /\ query.error
        /\ ~query.embedded
        /\ ~query.queried
        /\ query.read = {}
        /\ query.files = {}

\* C9 witness: a query for another project than the indexed one, on a store
\* that holds entries, was rejected.
C9_Witness ==
    /\ pc = "queried"
    /\ meta_file.state = "ok" /\ meta_file.project_path # Resolve(query.project)
    /\ collection # {}
    /\ query.outcome = "rejected"

\* C10: each progress event of a run carries a percentage within 0..100 that
\* is not smaller than the percentage of the event before it.
C10_ProgressMonotone ==
    /\ prog.before <= prog.percentage
    /\ prog.percentage \in 0..100
    /\ prog.before \in 0..100

\* C10 witness: an update run over at least 50 candidates with at least 10
\* stale files and more than two batches has reported 100.
C10_Witness ==
    /\ prog.pc = "done" /\ prog.mode = "update"
    /\ prog.total >= 50 /\ prog.stale >= 10 /\ prog.stale < prog.total
    /\ prog.chunks > 2 * batch_size
    /\ prog.percentage = 100

\* The chunks of the call whose request the backend answered with a vector,
\* in chunk order.
Succeeded ==
    LET Good(k) == call.backend[k] = "vec"
    IN SelectSeq([k \in 1..Len(call.texts) |-> k], Good)

\* C11: the list of embeddings holds one element per text answered so far,
\* in input order, the vector of the text where the backend answered and
\* the failure marker where it raised, whatever happened at the other
\* positions; the results of the file are exactly the chunks whose embedding
\* succeeded, in chunk order, each with its own vector, none with a failure
\* marker.
C11_EmbedFailureIsolated ==
    /\ Len(call.embeddings) = call.j
    /\ call.pc # "embedding" => Len(call.embeddings) = Len(call.texts)
    /\ \A k \in 1..Len(call.embeddings) :
          /\ call.backend[k] = "vec" => call.embeddings[k] = VecOf(call.texts[k])
          /\ call.backend[k] = "raise" => call.embeddings[k] = None
    /\ \A k \in 1..Len(call.results) :
          /\ ~call.results[k].embedding.null
          /\ call.results[k].embedding.dims > 0
    /\ call.pc = "done" =>
          call.results = [k \in 1..Len(Succeeded) |->
                            [embedding |-> VecOf(call.texts[Succeeded[k]]),
                             metadata |-> ChunkMetadata(call.texts[Succeeded[k]])]]

\* C11 witness: a file of at least three chunks of which one failed between
\* two that succeeded has been processed; two results were kept.
C11_Witness ==
    /\ call.pc = "done"
    /\ \E j, k, l \in 1..Len(call.texts) :
          /\ j < k /\ k < l
          /\ call.backend[j] = "vec" /\ call.backend[k] = "raise"
          /\ call.backend[l] = "vec"
    /\ Len(call.results) >= 2

\* The positions of the lists the loop has passed.
Passed == 0..(Min(call.i, call.n) - 1)

\* C12: the batches attempted so far are consecutive, hold at most
\* batch_size entries each, take the same positions of ids, embeddings and
\* metadatas, and together hold every position passed exactly once; every
\* failed batch was reported and did not stop the loop: when the loop ends
\* every position was in an attempted batch; the entries of the batches that
\* did not fail are in the store, position by position.
C12_BatchesCoverOnce ==
    /\ \A m \in 1..Len(call.attempts) :
          LET a == call.attempts[m].args
          IN /\ a.ids = a.embeddings /\ a.ids = a.metadatas
             /\ a.ids[2] - a.ids[1] \in 1..batch_size
             /\ a.ids[1] = IF m = 1 THEN 0 ELSE call.attempts[m - 1].args.ids[2]
    /\ \A k \in Passed :
          Cardinality({m \in 1..Len(call.attempts) :
                          /\ call.attempts[m].args.ids[1] <= k
                          /\ k < call.attempts[m].args.ids[2]}) = 1
    /\ call.errors = Cardinality({m \in 1..Len(call.attempts) : call.attempts[m].raised})
    /\ call.pc = "done" =>
          /\ Passed = 0..(call.n - 1)
          /\ Len(call.attempts) = (call.n + batch_size - 1) \div batch_size
    /\ \A m \in 1..Len(call.attempts) :
          ~call.attempts[m].raised =>
              \A k \in call.attempts[m].args.ids[1]..(call.attempts[m].args.ids[2] - 1) :
                  [id |-> k, embedding |-> k, metadata |-> k] \in call.stored
    /\ \A e \in call.stored : e.id = e.embedding /\ e.id = e.metadata

\* C12 witness: a run of three batches, the last one short, whose second
\* batch failed, has ended with the first and the third batch in the store.
C12_Witness ==
    /\ call.pc = "done"
    /\ Len(call.attempts) = 3
    /\ call.n < 3 * batch_size
    /\ ~call.attempts[1].raised /\ call.attempts[2].raised /\ ~call.attempts[3].raised
    /\ [id |-> 0, embedding |-> 0, metadata |-> 0] \in call.stored
    /\ [id |-> call.n - 1, embedding |-> call.n - 1, metadata |-> call.n - 1] \in call.stored
    /\ Cardinality(call.stored) = call.n - batch_size

\* The windows of the call under examination, by number m = 0, 1, ...:
\* window m starts at line m * S, S the step, spans min(W, n - start) lines,
\* and exists when the window before it did not reach the last line.
WinStep ==
    IF call.max_lines - call.overlap_lines > 1
    THEN call.max_lines - call.overlap_lines ELSE 1
WinStart(m) == m * WinStep
WinEnd(m) ==
    (IF WinStart(m) + call.max_lines < Len(call.lines)
     THEN WinStart(m) + call.max_lines ELSE Len(call.lines)) - 1
Windows ==
    {m \in 0..Len(call.lines) :
        m = 0 \/ WinStart(m - 1) + call.max_lines < Len(call.lines)}
\* Window m has a character that is no whitespace.
WinHasCode(m) ==
    \E k \in (WinStart(m) + 1)..(WinEnd(m) + 1) :
        \E p \in 1..Len(call.lines[k]) : call.lines[k][p] = "x"
CodeWindows == {m \in Windows : WinHasCode(m)}

\* C13 as stated: the chunks of a file are the windows starting at 0, S,
\* 2S, ..., each spanning min(W, n - start) lines, and the last chunk ends
\* at line n - 1.
C13_EveryWindowEmitted ==
    call.pc = "done" =>
        /\ Len(call.chunks) = Cardinality(Windows)
        /\ \A m \in Windows :
              /\ call.chunks[m + 1].start_line = WinStart(m)
              /\ call.chunks[m + 1].end_line = WinEnd(m)
        /\ call.chunks[Len(call.chunks)].end_line = Len(call.lines) - 1

\* C13 amended: the chunks of a file are, in order, those of the windows
\* starting at 0, S, 2S, ... that hold a character other than whitespace,
\* each spanning min(W, n - start) lines; the last window ends at line n - 1
\* and no chunk ends after it; a file of 40 lines of code gives, for W = 30
\* and O = 3, the chunks (0..29) and (27..39).
C13_CodeWindowsEmitted ==
    /\ \A j \in 1..Len(call.chunks) : call.chunks[j].end_line <= Len(call.lines) - 1
    /\ call.pc = "done" =>
          /\ Len(call.chunks) = Cardinality(CodeWindows)
          /\ \A m \in CodeWindows :
                LET j == Cardinality({w \in CodeWindows : w <= m})
                IN /\ call.chunks[j].start_line = WinStart(m)
                   /\ call.chunks[j].end_line = WinEnd(m)
          /\ \E m \in Windows :
                /\ \A w \in Windows : w <= m
                /\ WinEnd(m) = Len(call.lines) - 1
          /\ (Len(call.lines) = 40 /\ call.max_lines = 30 /\ call.overlap_lines = 3
                /\ CodeWindows = Windows) =>
                [j \in 1..Len(call.chunks) |->
                    <<call.chunks[j].start_line, call.chunks[j].end_line>>]
                  = << <<0, 29>>, <<27, 39>> >>

\* C13 witness: a file of three windows for W = 30 and O = 3, the first of
\* them blank, has been chunked into the two other windows.
C13_Witness ==
    /\ call.pc = "done"
    /\ call.max_lines = 30 /\ call.overlap_lines = 3
    /\ Cardinality(Windows) = 3
    /\ CodeWindows = {1, 2}
    /\ Len(call.chunks) = 2
    /\ call.chunks[2].end_line = Len(call.lines) - 1

\* C14: every chunk has start_line <= end_line and its text is the content
\* of the lines start_line..end_line, joined by the line separator.
C14_TextIsTheLines ==
    \A j \in 1..Len(call.chunks) :
        /\ call.chunks[j].start_line <= call.chunks[j].end_line
        /\ call.chunks[j].text =
              Join(SubSeq(call.lines, call.chunks[j].start_line + 1,
                          call.chunks[j].end_line + 1))

\* C15 as stated: of two scored chunks with numeric distances d1 < d2 the
\* one with d1 has the strictly greater score.
C15_ScoreStrictlyDecreasing ==
    \A i, j \in 1..Len(call.scores) :
        (call.distances[i] # Missing /\ call.distances[j] # Missing
            /\ call.distances[i] < call.distances[j]) =>
            call.scores[i] > call.scores[j]

\* C15 amended: of two scored chunks with numeric distances d1 < d2 the one
\* with d1 has a score at least as great, and a strictly greater one when
\* d2 is at least the epsilon and at least twice d1 + epsilon.
C15_ScoreDecreasing ==
    \A i, j \in 1..Len(call.scores) :
        (call.distances[i] # Missing /\ call.distances[j] # Missing
            /\ call.distances[i] < call.distances[j]) =>
            /\ call.scores[i] >= call.scores[j]
            /\ (call.distances[j] >= EpsUnits
                  /\ call.distances[j] >= 2 * (call.distances[i] + EpsUnits)) =>
                  call.scores[i] > call.scores[j]

\* C15 witness: two chunks with distances 0 and 1.0 have been scored, the
\* first strictly higher, and two with distances 0 and a distance far below
\* the epsilon, with equal scores.
C15_Witness ==
    /\ call.pc = "done"
    /\ \E i, j \in 1..Len(call.scores) :
          /\ call.distances[i] = 0 /\ call.distances[j] = EpsUnits * InvEpsilon
          /\ call.scores[i] > call.scores[j]
    /\ \E i, j \in 1..Len(call.scores) :
          /\ call.distances[i] = 0 /\ call.distances[j] = 1
          /\ call.scores[i] = call.scores[j]

\* C16: every scored chunk has a positive score, and of two scored chunks
\* the one earlier in the store's order has a score at least as great.
C16_PositiveOrderConsistent ==
    /\ \A i \in 1..Len(call.scores) : call.scores[i] > 0
    /\ \A i, j \in 1..Len(call.scores) : i < j => call.scores[i] >= call.scores[j]

\* The files of the items of the call, and the sum of the scores of the
\* items of file f.
ItemFiles == {call.items[j].source_file : j \in 1..Len(call.items)} \ {NoSource}
RECURSIVE SumUpTo(_, _)
SumUpTo(f, j) ==
    IF j = 0 THEN 0
    ELSE SumUpTo(f, j - 1)
         + (IF call.items[j].source_file = f THEN call.items[j].score ELSE 0)
SumOf(f) == SumUpTo(f, Len(call.items))

\* C17: the result of a query holds each file at most once, with the sum of
\* the scores of the returned chunks of that file, in non-increasing order
\* of that sum, at most k_files of them; its files are those of a set of
\* k_files files (all files if there are fewer) of the greatest sums, minus
\* the files that could not be read.
C17_RankedBySummedScore ==
    call.pc = "done" =>
        LET r == call.retrieved
            got == {r[j].file_path : j \in 1..Len(r)}
            kf == Min(TOP_K_FILES_TO_RETRIEVE, Cardinality(ItemFiles))
        IN /\ \A j, l \in 1..Len(r) : j # l => r[j].file_path # r[l].file_path
           /\ \A j \in 1..Len(r) : r[j].relevance_score = SumOf(r[j].file_path)
           /\ \A j, l \in 1..Len(r) : j < l => r[j].relevance_score >= r[l].relevance_score
           /\ Len(r) <= TOP_K_FILES_TO_RETRIEVE
           /\ \E top \in SUBSET ItemFiles :
                 /\ Cardinality(top) = kf
                 /\ \A f \in top, g \in ItemFiles \ top : SumOf(f) >= SumOf(g)
                 /\ got = top \ call.unreadable

\* C17 witness: a query over more than k_files files with two chunks each,
\* whose best file could not be read, has returned k_files - 1 files.
C17_Witness ==
    /\ call.pc = "done"
    /\ Cardinality(ItemFiles) > TOP_K_FILES_TO_RETRIEVE
    /\ Len(call.items) = 2 * Cardinality(ItemFiles)
    /\ call.sorted_files[1] \in call.unreadable
    /\ Len(call.retrieved) = TOP_K_FILES_TO_RETRIEVE - 1

\* C18: while a file task of the run is still outstanding, no batch has
\* been attempted and the store holds no entry it did not hold when the
\* run's tasks were submitted.
C18_JoinBarrier ==
    pending # {} =>
        /\ pc = "embed"
        /\ batch_i = 0
        /\ collection \subseteq store0

\* C18 witness: a run over two files has written its entries after both
\* tasks completed.
C18_Witness ==
    /\ pc = "persist" /\ batch_i > 0 /\ pending = {}
    /\ Cardinality(files_to_process_map) >= 2
    /\ Cardinality({m.source_file : m \in Range(all_metadatas)}) >= 2
    /\ \E k \in 1..Len(all_ids) : EntryAt(k) \in collection \ store0

\* The files that are stale for the run at its deletion step: in update
\* mode the candidates present and modified after the timestamp the run
\* compares with; full mode has no stale file.
StaleNow ==
    IF mode = "update"
    THEN {f \in candidate_files :
             fs[f].exists /\ fs[f].mtime > last_index_timestamp}
    ELSE {}

\* C19: the deletion step of a run comes before any insertion of the run;
\* it removes entries of stale files only and, in full mode, none; when no
\* deletion fails no old entry of a stale file is left, and otherwise at
\* most as many stale files keep entries as deletions failed; the run goes
\* on to the embedding of the stale files whether or not a deletion failed.
C19_DeleteStaleFirst ==
    [][pc = "delete" =>
          /\ collection \subseteq store0
          /\ collection' \subseteq collection
          /\ Sources(collection \ collection') \subseteq StaleNow
          /\ mode = "full" => collection' = collection
          /\ Cardinality(StaleNow \cap Sources(collection')) <= faults' - faults
          /\ StaleNow # {} => (pc' = "embed" /\ pending' = StaleNow)]_vars

\* C19 witness: an update run with two stale files that had entries is past
\* its deletion step; the deletion of one failed, the entries of the other
\* are gone, and both are about to be embedded.
C19_Witness ==
    /\ mode = "update" /\ pc = "embed"
    /\ pending = modified_files_for_deletion_check
    /\ \E f, g \in modified_files_for_deletion_check :
          /\ f \in Sources(store0) /\ f \notin Sources(collection)
          /\ g \in Sources(store0) /\ g \in Sources(collection)
    /\ collection \subseteq store0

\* The (vector, metadata) pairs the tasks of the run produce from the files
\* as they are, whatever the order of completion.
Produced ==
    UNION {Range(FileResults(f, fs[f].ver, 1..NumChunks(f, fs[f].ver))) :
              f \in {g \in files_to_process_map : fs[g].exists}}

\* C20: when a run over two or more files in which nothing was edited and
\* no call failed has attempted all its batches, the store holds every
\* (vector, metadata) pair
\* the tasks produce, whatever the order in which they completed; the ids
\* assigned in the run are pairwise distinct; and the entries of one file
\* lie next to each other with consecutive counters in chunk order.
C20_OrderIndependent ==
    (BatchesDone /\ edits + faults = ev0
        /\ Cardinality(files_to_process_map) >= 2) =>
        /\ \A r \in Produced :
              \E e \in collection :
                  e.embedding = r.embedding /\ e.metadata = r.metadata
        /\ \A j, k \in 1..Len(all_ids) : j # k => all_ids[j] # all_ids[k]
        /\ \A j, k \in 1..Len(all_ids) :
              (j < k /\ all_metadatas[j].source_file = all_metadatas[k].source_file) =>
                  /\ all_ids[k][2] - all_ids[j][2] = k - j
                  /\ all_metadatas[j].chunk < all_metadatas[k].chunk
                  /\ \A i \in j..k :
                        all_metadatas[i].source_file = all_metadatas[j].source_file

\* C21: when a run, no call having failed so far, ends by writing IndexMeta,
\* every file it processed that was modified after its task read it (the
\* store holds an entry of an older content of the file) is stale for the
\* next update run of the same project: its modification time is greater
\* than the timestamp that run will compare with.
C21_MidRunEditStale ==
    [][(pc = "persist" /\ pc' = "idle" /\ faults' = 0 /\ meta_file'.state = "ok") =>
          \A f \in files_to_process_map :
              (fs[f].exists
                  /\ \E e \in collection :
                        e.metadata.source_file = f /\ e.embedding[2] < fs[f].ver) =>
                  LET last == IF meta_file'.project_path = Resolve(project_dir_str)
                              THEN meta_file'.timestamp
                              ELSE 0
                  IN IsStale(fs[f].mtime, last)]_vars

\* C22: once an index run for the project path string s has ended and
\* IndexMeta holds what a run for s wrote, the stored project path is the
\* value later runs and queries compare with: an update run with s uses the
\* stored timestamp and a query with s is not rejected.
C22_StoredPathComparable ==
    (pc = "idle" /\ prev.mode # "none" /\ meta_file.state = "ok"
        /\ meta_file.project_path = prev.project_dir_str) =>
        /\ MetaMatches(prev.project_dir_str)
        /\ EffectiveTimestamp(prev.project_dir_str, "update") = meta_file.timestamp
        /\ ~QueryRejected(prev.project_dir_str)

\* C23: when an update run has attempted all its batches, no call having
\* failed so far, every entry of the store whose source file lies under the
\* project's root is an entry of a file the run enumerated as a candidate.
C23_NoEntryOfRemovedFile ==
    (BatchesDone /\ mode = "update" /\ faults = 0) =>
        \A e \in collection :
            RootOf(e.metadata.source_file) = Resolve(project_dir_str) =>
                e.metadata.source_file \in candidate_files

\* The parameters of the call satisfy 1 <= min_lines <= max_lines and
\* overlap_lines >= 0.
SaneParams ==
    /\ 1 <= call.min_lines /\ call.min_lines <= call.max_lines
    /\ call.overlap_lines >= 0

\* Line k (1-based) of the file has a character that is no whitespace.
NonBlank(k) == Strip(call.lines[k]) # <<>>

\* Line k (1-based) lies within [start_line, end_line] of an emitted chunk.
Covered(k) ==
    \E j \in 1..Len(call.chunks) :
        call.chunks[j].start_line <= k - 1 /\ k - 1 <= call.chunks[j].end_line

\* C24: with 1 <= min_lines <= max_lines and overlap_lines >= 0 the branch
\* that discards a short window is never taken, and when the call has
\* returned every non-blank line of the file lies within the line range of
\* an emitted chunk.
C24_NoContentLost ==
    SaneParams =>
        /\ call.discarded = 0
        /\ call.pc = "done" => \A k \in 1..Len(call.lines) : NonBlank(k) => Covered(k)

\* C24 witness: a file of more lines than two windows, with a blank line and
\* overlapping windows, has been chunked completely.
C24_Witness ==
    /\ SaneParams /\ call.pc = "done"
    /\ call.overlap_lines >= 1 /\ call.min_lines >= 2
    /\ Len(call.lines) > 2 * call.max_lines
    /\ \E k \in 1..Len(call.lines) : ~NonBlank(k)
    /\ Len(call.chunks) >= 2
    /\ \A k \in 1..Len(call.lines) : NonBlank(k) => Covered(k)

\* C25: for every content and every choice of parameters with
\* max_lines >= 1 the call returns, and the window start increases with
\* every iteration that does not end the loop.
C25_ChunkingTerminates ==
    /\ [][(call.pc = "loop" /\ call'.pc = "loop") => call'.i > call.i]_vars
    /\ <>(call.pc = "done")

\* C25 witness: a call with overlap_lines >= max_lines and one with
\* min_lines > max_lines has returned after more than one iteration.
C25_Witness ==
    /\ call.pc = "done" /\ call.i > 0
    /\ \/ call.overlap_lines >= call.max_lines
       \/ call.min_lines > call.max_lines /\ call.discarded > 0

(***************************************************************************)
(* extract_nodes_recursive.  The syntax tree has the nodes 1..n numbered   *)
(* in source order (parents before children, siblings left to right):      *)
(* parent[k] is the parent of k, 0 for the root.  A leaf covers height[k]   *)
(* lines of its own, an inner node the lines of its leaves.  The text of a  *)
(* node stands for the node: it is modelled by the node's number.           *)
(***************************************************************************)
NodeTypes == {"class_definition", "function_definition", "block"}

\* lang_config["nodes_to_capture"]: TREE_SITTER_CONFIG ships empty, these are
\* target sets in the manner of its example entries (lines 27-36).
TargetSets == {{"function_definition"},
               {"class_definition", "function_definition"}}

\* The node and its ancestors, in the tree given by the parent function p.
RECURSIVE AncOrSelfIn(_, _)
AncOrSelfIn(p, k) == IF k = 0 THEN {} ELSE {k} \cup AncOrSelfIn(p, p[k])

\* The parent functions of trees of n nodes numbered in source order: the
\* parent of k is the node before it or one of that node's ancestors.
Shapes(n) ==
    {p \in [1..n -> 0..(n - 1)] :
        /\ p[1] = 0
        /\ \A k \in 2..n : p[k] \in AncOrSelfIn(p, k - 1)}

AncOrSelf(k) == AncOrSelfIn(call.parent, k)

\* node.children, left to right.
Children(node) ==
    LET IsChild(j) == call.parent[j] = node
    IN SelectSeq([j \in 1..call.n |-> j], IsChild)

IsLeaf(k) == \A j \in 1..call.n : call.parent[j] # k

\* The last node within node k.
LastIn(k) == CHOOSE j \in k..call.n :
                /\ k \in AncOrSelf(j)
                /\ \A i \in (j + 1)..call.n : k \notin AncOrSelf(i)

\* The lines covered by the leaves among the nodes 1..b.
RECURSIVE LeafLines(_)
LeafLines(b) ==
    IF b = 0 THEN 0
    ELSE LeafLines(b - 1) + (IF IsLeaf(b) THEN call.height[b] ELSE 0)

\* node.start_point[0] and node.end_point[0]: 0-based rows.
start_point(k) == LeafLines(k - 1)
end_point(k) == LeafLines(LastIn(k)) - 1

\* Lines 76-85: the chunk of a node.
NodeChunk(node) ==
    [text |-> node, type |-> call.type[node],
     start_line |-> start_point(node), end_line |-> end_point(node)]

\* Mutant of extract_nodes_recursive: the search goes on below a matching
\* node.
RECURSIVE ExtractEveryMatch(_)
ExtractEveryMatch(node) ==
    LET RECURSIVE Extend(_)
        Extend(cs) ==
            IF cs = <<>> THEN <<>>
            ELSE ExtractEveryMatch(Head(cs)) \o Extend(Tail(cs))
        num_lines == end_point(node) - start_point(node) + 1
    IN (IF call.type[node] \in call.target_node_types /\ num_lines >= call.min_lines
        THEN <<NodeChunk(node)>>
        ELSE <<>>) \o Extend(Children(node))

\* Lines 73-90.
RECURSIVE extract_nodes_recursive(_)
extract_nodes_recursive(node) ==
    LET RECURSIVE Extend(_)
        Extend(cs) ==
            IF cs = <<>> THEN <<>>
            ELSE extract_nodes_recursive(Head(cs)) \o Extend(Tail(cs))
        num_lines == end_point(node) - start_point(node) + 1
    IN IF call.type[node] \in call.target_node_types
       THEN IF num_lines >= call.min_lines
            THEN <<NodeChunk(node)>>
            ELSE <<>>
       ELSE Extend(Children(node))

\* A parsed file: any tree of up to MaxNodes nodes, any node types, leaves
\* of one or two lines, either target set, min_node_lines up to MaxMinLines.
InitExtract ==
    /\ InitMain
    /\ prog = NoProg
    /\ \E n \in 1..MaxNodes :
         \E p \in Shapes(n) :
           \E ty \in [1..n -> NodeTypes] :
             \E h \in [1..n -> 1..2] :
               \E tg \in TargetSets :
                 \E m \in 1..MaxMinLines :
                    /\ \A k \in 1..n : (\E j \in 1..n : p[j] = k) => h[k] = 1
                    /\ call = [fn |-> "extract", pc |-> "parsed", n |-> n,
                               parent |-> p, type |-> ty, height |-> h,
                               target_node_types |-> tg, min_lines |-> m,
                               chunks |-> <<>>]

\* Lines 99-103: the search from the root node.
ExtractFromRoot ==
    /\ call.pc = "parsed"
    /\ call' = [call EXCEPT !.pc = "done",
                            !.chunks = extract_nodes_recursive(1)]
    /\ UNCHANGED <<now, fs, edits, faults, collection, meta_file, runs, pc,
                   run_vars, prev, query, prog>>

NextExtract == ExtractFromRoot

SpecExtract == InitExtract /\ [][NextExtract]_vars

\* The node's type is one to capture.
Matches(k) == call.type[k] \in call.target_node_types

\* The matching nodes without a matching ancestor that span at least
\* min_lines lines.
Outermost ==
    {k \in 1..call.n :
        /\ Matches(k)
        /\ \A a \in AncOrSelf(k) \ {k} : ~Matches(a)
        /\ end_point(k) - start_point(k) + 1 >= call.min_lines}

\* C26: the chunks of a searched tree are exactly the matching nodes that
\* have no matching ancestor and span at least min_lines lines, one chunk
\* each with the node's type and rows, in source order; so no chunk lies
\* within another matching node, in particular not within one that was
\* discarded for being too short.
C26_OutermostMatches ==
    (call.fn = "extract" /\ call.pc = "done") =>
        /\ {call.chunks[j].text : j \in 1..Len(call.chunks)} = Outermost
        /\ \A i, j \in 1..Len(call.chunks) :
              i < j => call.chunks[i].text < call.chunks[j].text
        /\ \A j \in 1..Len(call.chunks) :
              call.chunks[j] = NodeChunk(call.chunks[j].text)
        /\ \A j \in 1..Len(call.chunks) :
              \A a \in AncOrSelf(call.chunks[j].text) \ {call.chunks[j].text} :
                  ~Matches(a)

\* C26 witness: a searched tree in which a matching node of at least
\* min_lines lines lies within an emitted one and an outermost matching
\* node was discarded for being too short.
C26_Witness ==
    /\ call.fn = "extract" /\ call.pc = "done"
    /\ Len(call.chunks) = 1
    /\ \E k \in 1..call.n :
          /\ Matches(k) /\ (AncOrSelf(k) \ {k}) \cap Outermost # {}
          /\ end_point(k) - start_point(k) + 1 >= call.min_lines
    /\ \E k \in 1..call.n :
          /\ Matches(k) /\ k \notin Outermost
          /\ \A a \in AncOrSelf(k) \ {k} : ~Matches(a)

====
